---- MODULE Spec2Model ----
(***************************************************************************)
(* Model of the earthquake-map acquisition and parsing pipeline.           *)
(*                                                                         *)
(* A JavaScript string is a sequence of one-character strings (one entry   *)
(* per UTF-16 code unit), so that split, trim, the regular expressions,    *)
(* parseFloat and the template literal that builds the id are computed on  *)
(* characters, as the code computes them.                                  *)
(***************************************************************************)
EXTENDS Integers, Sequences, FiniteSets, TLC

VARIABLES
  \* ---- one run of a parser (parseEarthquakeData / parseEarthquakeLines)
  rawText,      \* the argument of parseEarthquakeData
  parser,       \* which parser runs: "client" (service) or "server" (action)
  ppc,          \* position of the parser: "start", "each", "done"
  lines,        \* the array the forEach iterates over
  idx,          \* index (1-based) of the next line the forEach callback gets
  earthquakes,  \* the array the callback pushes to
  parsed,       \* the value parseEarthquakeData returned
  \* ---- one call of the client fetchEarthquakeData, one of the server action
  call,         \* the client call
  scall,        \* the server-action call
  responses,    \* history: what each stage of the client call received
  sresponses,   \* history: what the server action's fetch received
  \* ---- the page (Home component)
  cycles,       \* the calls of getEarthquakeData, in the order they started
  mounted,      \* the effects have run
  pageEarthquakes, loading, error, dataSource, lastUpdated, countdown,
  \* ---- one request to the relay endpoint (GET of api/proxy)
  relay,        \* the handler: the await it is at and what upstream delivered
  reply         \* the response the handler returned

parseVars == <<rawText, parser, ppc, lines, idx, earthquakes, parsed>>
fetchVars == <<call, scall, responses, sresponses>>
pageVars  == <<cycles, mounted, pageEarthquakes, loading, error, dataSource,
               lastUpdated, countdown>>
relayVars == <<relay, reply>>
vars == <<parseVars, fetchVars, pageVars, relayVars>>

----------------------------------------------------------------------------
(* Characters and strings *)

Digit == {"0", "1", "2", "3", "4", "5", "6", "7", "8", "9"}

\* the characters of the model's texts that the regular expression \s matches
WhiteSpace == {" ", "\t", "\r", "\n"}

\* String.prototype.substring(from) for 0 <= from, as a 1-based suffix
Substring(s, from) == SubSeq(s, from + 1, Len(s))

\* the string s has the string p at 1-based position i
HasAt(s, p, i) ==
  /\ i >= 1
  /\ i + Len(p) - 1 <= Len(s)
  /\ \A k \in 1..Len(p) : s[i + k - 1] = p[k]

\* String.prototype.startsWith
StartsWith(s, p) == HasAt(s, p, 1)

\* String.prototype.includes
Includes(s, p) == \E i \in 1..(Len(s) + 1) : HasAt(s, p, i)

\* String.prototype.indexOf, 0-based, -1 when absent
IndexOf(s, p) ==
  IF Includes(s, p)
  THEN (CHOOSE i \in 1..(Len(s) + 1) :
          HasAt(s, p, i) /\ \A j \in 1..(i - 1) : ~HasAt(s, p, j)) - 1
  ELSE -1

\* String.prototype.trim
Trim(s) ==
  IF \A i \in 1..Len(s) : s[i] \in WhiteSpace
  THEN <<>>
  ELSE LET a == CHOOSE i \in 1..Len(s) :
                  s[i] \notin WhiteSpace /\ \A j \in 1..(i - 1) : s[j] \in WhiteSpace
           b == CHOOSE i \in 1..Len(s) :
                  s[i] \notin WhiteSpace /\ \A j \in (i + 1)..Len(s) : s[j] \in WhiteSpace
       IN  SubSeq(s, a, b)

\* String.prototype.split('\n')
RECURSIVE SplitNewline(_)
SplitNewline(s) ==
  IF \A i \in 1..Len(s) : s[i] # "\n"
  THEN <<s>>
  ELSE LET i == CHOOSE i \in 1..Len(s) :
                  s[i] = "\n" /\ \A j \in 1..(i - 1) : s[j] # "\n"
       IN  <<SubSeq(s, 1, i - 1)>> \o SplitNewline(SubSeq(s, i + 1, Len(s)))

\* String.prototype.split(/\s+/)
RECURSIVE SplitWhitespace(_)
SplitWhitespace(s) ==
  IF \A i \in 1..Len(s) : s[i] \notin WhiteSpace
  THEN <<s>>
  ELSE LET i == CHOOSE i \in 1..Len(s) :
                  s[i] \in WhiteSpace /\ \A j \in 1..(i - 1) : s[j] \notin WhiteSpace
           j == IF \A k \in i..Len(s) : s[k] \in WhiteSpace
                THEN Len(s) + 1
                ELSE CHOOSE k \in i..Len(s) :
                       s[k] \notin WhiteSpace /\ \A m \in i..(k - 1) : s[m] \in WhiteSpace
       IN  <<SubSeq(s, 1, i - 1)>> \o SplitWhitespace(SubSeq(s, j, Len(s)))

\* Array.prototype.join(sep)
RECURSIVE Join(_, _)
Join(parts, sep) ==
  IF Len(parts) = 0 THEN <<>>
  ELSE IF Len(parts) = 1 THEN parts[1]
  ELSE parts[1] \o sep \o Join(Tail(parts), sep)

\* Array.prototype.slice(start, end) for start >= 0 (0-based, end exclusive)
Slice(parts, start, end) ==
  LET from == IF start > Len(parts) THEN Len(parts) ELSE start
      e0   == IF end < 0 THEN (IF Len(parts) + end < 0 THEN 0 ELSE Len(parts) + end)
              ELSE end
      to   == IF e0 > Len(parts) THEN Len(parts) ELSE e0
  IN  SubSeq(parts, from + 1, to)

\* \d{4}\.\d{2}\.\d{2} matches at 1-based position i
DateAt(s, i) ==
  /\ i >= 1
  /\ i + 9 <= Len(s)
  /\ \A k \in {0, 1, 2, 3, 5, 6, 8, 9} : s[i + k] \in Digit
  /\ s[i + 4] = "."
  /\ s[i + 7] = "."

\* \d{2}:\d{2}:\d{2} matches at 1-based position i
TimeAt(s, i) ==
  /\ i >= 1
  /\ i + 7 <= Len(s)
  /\ \A k \in {0, 1, 3, 4, 6, 7} : s[i + k] \in Digit
  /\ s[i + 2] = ":"
  /\ s[i + 5] = ":"

\* datePattern.test(s), datePattern = /\d{4}\.\d{2}\.\d{2}/
datePattern(s) == \E i \in 1..Len(s) : DateAt(s, i)

\* the first match of datePattern in s: its 0-based index, -1 when none
datePatternIndex(s) ==
  IF datePattern(s)
  THEN (CHOOSE i \in 1..Len(s) : DateAt(s, i) /\ \A j \in 1..(i - 1) : ~DateAt(s, j)) - 1
  ELSE -1

\* /^\d{4}\.\d{2}\.\d{2}\s+\d{2}:\d{2}:\d{2}/.test(s)
dateTimePattern(s) ==
  /\ DateAt(s, 1)
  /\ \E k \in 1..Len(s) :
       /\ \A m \in 11..(10 + k) : m <= Len(s) /\ s[m] \in WhiteSpace
       /\ TimeAt(s, 11 + k)

----------------------------------------------------------------------------
(* Numbers.  A Number is NaN, an infinity, or a finite decimal kept as its *)
(* sign, integer digits without leading zeros and fraction digits without  *)
(* trailing zeros.  The tokens of the model have a few digits and no       *)
(* exponent part, so neither the rounding of a double nor the exponent     *)
(* notation of Number::toString is reached.                               *)

NaN == [kind |-> "NaN", neg |-> FALSE, int |-> <<>>, frac |-> <<>>]

null == [kind |-> "null", neg |-> FALSE, int |-> <<>>, frac |-> <<>>]

RECURSIVE StripLeadingZeros(_)
StripLeadingZeros(d) ==
  IF Len(d) > 0 /\ d[1] = "0" THEN StripLeadingZeros(Tail(d)) ELSE d

RECURSIVE StripTrailingZeros(_)
StripTrailingZeros(d) ==
  IF Len(d) > 0 /\ d[Len(d)] = "0"
  THEN StripTrailingZeros(SubSeq(d, 1, Len(d) - 1))
  ELSE d

\* the longest run of decimal digits of s that starts at 1-based position i
DigitRun(s, i) ==
  LET stop == IF \A k \in i..Len(s) : s[k] \in Digit
              THEN Len(s) + 1
              ELSE CHOOSE k \in i..Len(s) :
                     s[k] \notin Digit /\ \A m \in i..(k - 1) : s[m] \in Digit
  IN  SubSeq(s, i, stop - 1)

\* parseFloat: the number with these digits, NaN when there is no digit
MakeNumber(neg, int, frac) ==
  IF Len(int) = 0 /\ Len(frac) = 0
  THEN NaN
  ELSE [kind |-> "finite", neg |-> neg,
        int |-> StripLeadingZeros(int), frac |-> StripTrailingZeros(frac)]

\* parseFloat: the fraction digits that follow the integer digits int, which
\* start at position start of s
ParseFraction(s, neg, start, int) ==
  MakeNumber(neg, int,
             IF start + Len(int) <= Len(s) /\ s[start + Len(int)] = "."
             THEN DigitRun(s, start + Len(int) + 1)
             ELSE <<>>)

\* parseFloat: the literal that starts at position start of s, after the sign
ParseUnsigned(s, neg, start) ==
  IF HasAt(s, <<"I", "n", "f", "i", "n", "i", "t", "y">>, start)
  THEN [kind |-> "Infinity", neg |-> neg, int |-> <<>>, frac |-> <<>>]
  ELSE ParseFraction(s, neg, start, DigitRun(s, start))

\* parseFloat: the sign of the trimmed string s
ParseSigned(s) ==
  ParseUnsigned(s, Len(s) > 0 /\ s[1] = "-",
                IF Len(s) > 0 /\ s[1] \in {"+", "-"} THEN 2 ELSE 1)

\* parseFloat(string): the longest prefix of the trimmed string that is a
\* StrDecimalLiteral (sign, Infinity, digits, fraction), NaN when there is none
parseFloat(string) == ParseSigned(Trim(string))

\* Number::toString, as the template literal `${n}` applies it
NumberToString(n) ==
  IF n.kind = "NaN" THEN <<"N", "a", "N">>
  ELSE IF n.kind = "Infinity"
  THEN (IF n.neg THEN <<"-">> ELSE <<>>) \o <<"I", "n", "f", "i", "n", "i", "t", "y">>
  ELSE IF Len(n.int) = 0 /\ Len(n.frac) = 0 THEN <<"0">>
  ELSE (IF n.neg THEN <<"-">> ELSE <<>>)
       \o (IF Len(n.int) = 0 THEN <<"0">> ELSE n.int)
       \o (IF Len(n.frac) = 0 THEN <<>> ELSE <<".">> \o n.frac)

----------------------------------------------------------------------------
(* The parsers *)

Sentinel == <<"-", ".", "-">>

REVIZE == <<"R", "E", "V", "I", "Z", "E">>

\* `${date}_${time}_${latitude}_${longitude}`
MakeId(date, time, latitude, longitude) ==
  date \o <<"_">> \o time \o <<"_">> \o NumberToString(latitude)
       \o <<"_">> \o NumberToString(longitude)

\* parts[i] === "-.-" ? null : parseFloat(parts[i])
Magnitude(token) == IF token = Sentinel THEN null ELSE parseFloat(token)

\* the filter without its test for the sentinel
IsCandidateAnyDate(line) ==
  /\ Len(Trim(line)) > 0
  /\ datePattern(line)

\* the filter both parsers apply to the lines of a text:
\* line.trim().length > 0, then datePattern.test(line) && line.includes("-.-")
IsCandidate(line) ==
  /\ Len(Trim(line)) > 0
  /\ datePattern(line)
  /\ Includes(line, Sentinel)

CandidateLines(text) == SelectSeq(SplitNewline(text), IsCandidate)

\* the record both callbacks push: the Earthquake built from the tokens of a
\* line and the 0-based index of the last token of its location
Earthquake(date, time, latitude, longitude, parts, locationStart, locationEnd) ==
  [date            |-> date,
   time            |-> time,
   latitude        |-> latitude,
   longitude       |-> longitude,
   depth           |-> parseFloat(parts[5]),
   magnitudeMD     |-> Magnitude(parts[6]),
   magnitudeML     |-> Magnitude(parts[7]),
   magnitudeMw     |-> Magnitude(parts[8]),
   location        |-> Trim(Join(Slice(parts, locationStart, locationEnd + 1), <<" ">>)),
   solutionQuality |-> Trim(parts[Len(parts)]),
   id              |-> MakeId(date, time, latitude, longitude)]

\* the client service's location bounds: the 0-based index of the last token
\* of the location (locationEnd = parts.length - 2, one less for a REVIZE
\* after a parenthesized timestamp)
ClientLocationEnd(parts) ==
  IF /\ StartsWith(Trim(parts[Len(parts)]), REVIZE)
     /\ StartsWith(parts[Len(parts) - 1], <<"(">>)
  THEN (Len(parts) - 2) - 1
  ELSE Len(parts) - 2

\* the client callback with the length test off by one
ClientRecordShort(parts) ==
  IF Len(parts) < 9
  THEN <<>>
  ELSE << Earthquake(parts[1], parts[2], parseFloat(parts[3]), parseFloat(parts[4]),
                     parts, 8, ClientLocationEnd(parts)) >>

\* the callback of the client service on the tokens of a line
ClientRecord(parts) ==
  IF Len(parts) < 10
  THEN <<>>
  ELSE << Earthquake(parts[1], parts[2], parseFloat(parts[3]), parseFloat(parts[4]),
                     parts, 8, ClientLocationEnd(parts)) >>

\* the callback of lines.forEach in the client service's parseEarthquakeData:
\* the records it pushes for one line (none or one)
ClientLine(line) == ClientRecord(SplitWhitespace(Trim(line)))

\* the server action's location bounds: the 0-based index of the last token
\* of the location (locationEnd = parts.length - 1, two less for a REVIZE
\* after a parenthesized timestamp)
ServerLocationEnd(parts) ==
  IF /\ StartsWith(Trim(parts[(Len(parts) - 1) + 1]), REVIZE)
     /\ StartsWith(parts[(Len(parts) - 1) - 1 + 1], <<"(">>)
  THEN (Len(parts) - 1) - 2
  ELSE Len(parts) - 1

\* the test that opens the callback of parseEarthquakeLines
ServerGate(line) == dateTimePattern(line)

\* the callback of parseEarthquakeLines on the tokens of a line
ServerRecord(parts) ==
  IF Len(parts) < 10
  THEN <<>>
  ELSE << Earthquake(parts[1], parts[2], parseFloat(parts[3]), parseFloat(parts[4]),
                     parts, 8, ServerLocationEnd(parts)) >>

\* the callback of dataLines.forEach in parseEarthquakeLines
ServerLine(line) ==
  IF ~ServerGate(line) THEN <<>> ELSE ServerRecord(SplitWhitespace(Trim(line)))

\* lines.forEach(callback) of the client service: the records pushed for a
\* sequence of lines
RECURSIVE ClientForEach(_)
ClientForEach(ls) ==
  IF Len(ls) = 0 THEN <<>> ELSE ClientLine(ls[1]) \o ClientForEach(Tail(ls))

\* the client service's parseEarthquakeData
parseEarthquakeData(text) == ClientForEach(CandidateLines(text))

\* dataLines.forEach(callback) of parseEarthquakeLines
RECURSIVE ServerForEach(_)
ServerForEach(ls) ==
  IF Len(ls) = 0 THEN <<>> ELSE ServerLine(ls[1]) \o ServerForEach(Tail(ls))

\* headerText, line 333
headerText ==
  <<"T", "a", "r", "i", "h", " ", " ", " ", " ", " ", " ", "S", "a", "a",
    "t", " ", " ", " ", " ", " ", " ", "E", "n", "l", "e", "m", "(", "N",
    ")", " ", " ", "B", "o", "y", "l", "a", "m", "(", "E", ")", " ", "D",
    "e", "r", "i", "n", "l", "i", "k", "(", "k", "m", ")", " ", " ", "M",
    "D", " ", " ", " ", "M", "L", " ", " ", " ", "M", "w", " ", " ", " ",
    " ", "Y", "e", "r">>

\* alternateHeaders, lines 338-343; a character outside ASCII is written as its
\* code unit, "U+00DC"
alternateHeaders ==
  <<
    <<"T", "a", "r", "i", "h">>,
    <<"D", "a", "t", "e">>,
    <<"T", "U", "R", "K", "I", "Y", "E", " ", "V", "E", " ", "Y", "A", "K",
      "I", "N", " ", "C", "E", "V", "R", "E", "S", "I", "N", "D", "E", "K",
      "I", " ", "S", "O", "N", " ", "D", "E", "P", "R", "E", "M", "L", "E",
      "R">>,
    <<"T", "U+00DC", "R", "K", "U+0130", "Y", "E", " ", "V", "E", " ", "Y",
      "A", "K", "I", "N", " ", "U+00C7", "E", "V", "R", "E", "S", "U+0130",
      "N", "D", "E", "K", "U+0130", " ", "S", "O", "N", " ", "D", "E", "P",
      "R", "E", "M", "L", "E", "R">>
  >>

\* the first match of separatorPattern = /[-]+/ in s: [index, length], 0-based;
\* index -1 when there is none
separatorMatch(s) ==
  IF \A i \in 1..Len(s) : s[i] # "-"
  THEN [index |-> -1, length |-> 0]
  ELSE LET i == CHOOSE i \in 1..Len(s) : s[i] = "-" /\ \A j \in 1..(i - 1) : s[j] # "-"
           e == IF \A k \in i..Len(s) : s[k] = "-"
                THEN Len(s)
                ELSE (CHOOSE k \in i..Len(s) :
                        s[k] # "-" /\ \A m \in i..(k - 1) : s[m] = "-") - 1
       IN  [index |-> i - 1, length |-> e - i + 1]

\* a scan's end: the candidate lines it hands to parseEarthquakeLines, joined,
\* when there is one (earthquakeLines.length > 0)
DataSectionOf(earthquakeLines) ==
  IF Len(earthquakeLines) > 0
  THEN [found |-> TRUE, dataSection |-> Join(earthquakeLines, <<"\n">>)]
  ELSE [found |-> FALSE, dataSection |-> <<>>]

\* the alternate scan from the first date match (0-based matchIndex in
\* afterHeader, the text from the header at index on)
AlternateFrom(text, index, afterHeader, matchIndex) ==
  CandidateLines(
    Substring(text,
              IndexOf(afterHeader, SubSeq(afterHeader, matchIndex + 1, matchIndex + 10))
                + index))

\* the body of the loop for a header found at index
AlternateAt(text, index) ==
  IF datePatternIndex(Substring(text, index)) = -1
  THEN [found |-> FALSE, dataSection |-> <<>>]
  ELSE DataSectionOf(AlternateFrom(text, index, Substring(text, index),
                                   datePatternIndex(Substring(text, index))))

\* one header of the loop: what it hands on, found = FALSE when the loop goes
\* on to the next header
AlternateTry(text, index) ==
  IF index = -1 THEN [found |-> FALSE, dataSection |-> <<>>] ELSE AlternateAt(text, index)

\* the loop over alternateHeaders, from header number h on: the data section
\* it hands to parseEarthquakeLines, found = FALSE when it ends without one
RECURSIVE AlternateScan(_, _)
AlternateScan(text, h) ==
  IF h > Len(alternateHeaders)
  THEN [found |-> FALSE, dataSection |-> <<>>]
  ELSE IF AlternateTry(text, IndexOf(text, alternateHeaders[h])).found
  THEN AlternateTry(text, IndexOf(text, alternateHeaders[h]))
  ELSE AlternateScan(text, h + 1)

\* the scan after the separator sep found in afterHeader
AfterSeparator(afterHeader, sep) ==
  IF sep.index = -1
  THEN [found |-> FALSE, dataSection |-> <<>>]
  ELSE DataSectionOf(CandidateLines(Substring(afterHeader, sep.index + sep.length)))

\* the scan after the exact header, afterHeader the text that follows it
AfterHeader(afterHeader) == AfterSeparator(afterHeader, separatorMatch(afterHeader))

\* the scan of the server action's parseEarthquakeData after the exact header
HeaderScan(text) ==
  AfterHeader(Substring(text, IndexOf(text, headerText) + Len(headerText)))

\* a find that only sees a date at the start of a line
HasDateLineAtStart(ls) == \E i \in 1..Len(ls) : DateAt(ls[i], 1) /\ Includes(ls[i], Sentinel)

\* rawText.split('\n').find(line => datePattern.test(line) && line.includes("-.-"))
\* finds a line
HasDateLine(ls) == \E i \in 1..Len(ls) : datePattern(ls[i]) /\ Includes(ls[i], Sentinel)

\* the server action's parseEarthquakeData up to its call of
\* parseEarthquakeLines: the data section it passes, found = FALSE when it
\* returns [] without calling it
LocateDataSection(text) ==
  IF HasDateLine(SplitNewline(text))
  THEN [found |-> TRUE, dataSection |-> Join(CandidateLines(text), <<"\n">>)]
  ELSE IF IndexOf(text, headerText) = -1
  THEN AlternateScan(text, 1)
  ELSE HeaderScan(text)

\* the array parseEarthquakeLines iterates over:
\* dataSection.split("\n").map(line => line.trim()).filter(line => line.length > 0)
RECURSIVE TrimAll(_)
TrimAll(ls) == IF Len(ls) = 0 THEN <<>> ELSE <<Trim(ls[1])>> \o TrimAll(Tail(ls))

IsNonEmpty(line) == Len(line) > 0

DataLines(dataSection) == SelectSeq(TrimAll(SplitNewline(dataSection)), IsNonEmpty)

parseEarthquakeLines(dataSection) == ServerForEach(DataLines(dataSection))

\* the end of the server action's parseEarthquakeData
ParseLocated(located) ==
  IF located.found THEN parseEarthquakeLines(located.dataSection) ELSE <<>>

\* the server action's parseEarthquakeData
actionParseEarthquakeData(text) == ParseLocated(LocateDataSection(text))

----------------------------------------------------------------------------
(* The texts the parsers are run on.  A line is built from tokens; a text  *)
(* is one line, or up to MaxLines lines of SampleLines joined by newlines. *)

MaxLines == 2

Date1 == <<"2", "0", "2", "4", ".", "0", "3", ".", "1", "5">>
FallbackDate == <<"2", "0", "2", "3", ".", "0", "5", ".", "0", "1">>
Time1 == <<"1", "4", ":", "2", "3", ":", "1", "1">>
Lat1 == <<"3", "8", ".", "4", "5", "2", "1">>
Lat1Padded == <<"3", "8", ".", "4", "0">>
Lat2 == <<"3", "8", ".", "4">>
Lon1 == <<"2", "7", ".", "1", "2", "3", "4">>
Depth1 == <<"7", ".", "3">>
Mag1 == <<"3", ".", "2">>
NotANumber == <<"a", "b", "c">>
Place1 == <<"I", "Z", "M", "I", "R">>
Place2 == <<"S", "O", "M", "E">>
Place3 == <<"P", "L", "A", "C", "E">>
Quality1 == <<"C">>
Revised == <<"R", "E", "V", "I", "Z", "E", "0", "1">>
RevisedAt == <<"(", "1", "4", ":", "0", "0", ":", "0", "0", ")">>
Junk1 == <<"a", "_", "b">>
Junk2 == <<"c">>
Junk3 == <<"a">>
Junk4 == <<"b", "_", "c">>

Heads ==
  { <<Date1, Time1>>, <<FallbackDate, Time1>>, <<Date1, Junk2>>,
    <<Junk1, Junk2>>, <<Junk3, Junk4>> }

Numerics ==
  { <<Lat1, Lon1, Depth1>>, <<Lat1Padded, Lon1, Depth1>>, <<Lat2, Lon1, Depth1>>,
    <<NotANumber, Lon1, Depth1>>, <<Lat1, NotANumber, Depth1>>,
    <<Lat1, Lon1, NotANumber>> }

Magnitudes ==
  { <<a, b, c>> : a \in {Sentinel, Mag1}, b \in {Sentinel, Mag1}, c \in {Sentinel, Mag1} }
    \cup { <<Sentinel, NotANumber, Sentinel>> }

Locations == { <<>>, <<Place1>>, <<Date1>>, <<Place2, Place3>> }

Tails == { <<Quality1>>, <<RevisedAt, Revised>>, <<Place1, Revised>> }

Space == <<" ">>

RecordLines ==
  { Join(h \o n \o m \o l \o t, Space) :
      h \in Heads, n \in Numerics, m \in Magnitudes, l \in Locations, t \in Tails }

SampleLines ==
  { \* the line of the specification's end-to-end example, two spaces before the code
    Join(<<Date1, Time1, Lat1, Lon1, Depth1, Sentinel, Mag1, Sentinel, Place2, Place3,
           <<>>, Quality1>>, Space),
    \* a revised record, ended by a carriage return
    Join(<<Date1, Time1, Lat2, Lon1, Depth1, Sentinel, Mag1, Sentinel, Place1,
           RevisedAt, Revised>>, Space) \o <<"\r">>,
    \* the same event with the latitude written 38.40, indented
    Space \o Join(<<Date1, Time1, Lat1Padded, Lon1, Depth1, Sentinel, Mag1, Sentinel,
                    Place1, Quality1>>, Space),
    \* two lines that do not start with a date and a time
    Join(<<Junk1, Junk2, Lat1, Lon1, Depth1, Sentinel, Sentinel, Sentinel, Date1,
           Quality1>>, Space),
    Join(<<Junk3, Junk4, Lat1, Lon1, Depth1, Sentinel, Sentinel, Sentinel, Date1,
           Quality1>>, Space),
    \* a latitude that is no number
    Join(<<Date1, Time1, NotANumber, Lon1, Depth1, Sentinel, Mag1, Sentinel, Place1,
           Quality1>>, Space),
    \* too few tokens
    Join(<<Date1, Time1, Lat1, Lon1, Depth1, Sentinel, Mag1, Sentinel, Quality1>>, Space),
    \* blank, prose, prose with a date, the headers and a separator
    <<" ", " ">>,
    Join(<<Place2, Place3>>, Space),
    Join(<<alternateHeaders[2], Date1>>, Space),
    \* a sentinel without a date
    Join(<<Place2, Sentinel>>, Space),
    headerText,
    <<"-", "-", "-">> }

Texts ==
  RecordLines
    \cup { Join(f, <<"\n">>) : f \in UNION { [1..n -> SampleLines] : n \in 0..MaxLines } }

----------------------------------------------------------------------------
(* One run of a parser, the forEach callback one step per line *)

NoCall == [fn |-> "none", at |-> "none", status |-> "idle", value |-> <<>>,
           from |-> "none", issued |-> <<>>, outstanding |-> {}]

FetchIdle ==
  /\ call = NoCall
  /\ scall = NoCall
  /\ responses = <<>>
  /\ sresponses = <<>>

PageIdle ==
  /\ cycles = <<>>
  /\ mounted = FALSE
  /\ pageEarthquakes = <<>>
  /\ loading = TRUE
  /\ error = FALSE
  /\ dataSource = "live"
  /\ lastUpdated = 0
  /\ countdown = 60

NoReply == [status |-> 0, contentType |-> "none", body |-> <<>>]

RelayIdle ==
  /\ relay = [at |-> "idle", status |-> 0, threw |-> "none", text |-> <<>>,
              markers |-> FALSE]
  /\ reply = NoReply

ParseIdle ==
  /\ rawText = <<>>
  /\ parser = "none"
  /\ ppc = "start"
  /\ lines = <<>>
  /\ idx = 1
  /\ earthquakes = <<>>
  /\ parsed = <<>>

InitParse ==
  /\ rawText \in Texts
  /\ parser \in {"client", "server"}
  /\ ppc = "start"
  /\ lines = <<>>
  /\ idx = 1
  /\ earthquakes = <<>>
  /\ parsed = <<>>
  /\ FetchIdle
  /\ PageIdle
  /\ RelayIdle

\* the client service's parseEarthquakeData up to the forEach
ClientLocate ==
  /\ parser = "client"
  /\ ppc = "start"
  /\ lines' = CandidateLines(rawText)
  /\ idx' = 1
  /\ earthquakes' = <<>>
  /\ IF Len(lines') = 0
     THEN ppc' = "done" /\ parsed' = <<>>
     ELSE ppc' = "each" /\ UNCHANGED parsed
  /\ UNCHANGED <<rawText, parser, fetchVars, pageVars, relayVars>>

\* one call of the forEach callback of the client service
ClientCallback ==
  /\ parser = "client"
  /\ ppc = "each"
  /\ idx <= Len(lines)
  /\ earthquakes' = earthquakes \o ClientLine(lines[idx])
  /\ idx' = idx + 1
  /\ UNCHANGED <<rawText, parser, ppc, lines, parsed, fetchVars, pageVars, relayVars>>

\* return earthquakes
ClientReturn ==
  /\ parser = "client"
  /\ ppc = "each"
  /\ idx > Len(lines)
  /\ parsed' = earthquakes
  /\ ppc' = "done"
  /\ UNCHANGED <<rawText, parser, lines, idx, earthquakes, fetchVars, pageVars, relayVars>>

\* the server action's parseEarthquakeData, and parseEarthquakeLines up to
\* its forEach
ServerLocate ==
  /\ parser = "server"
  /\ ppc = "start"
  /\ lines' = (IF LocateDataSection(rawText).found
                THEN DataLines(LocateDataSection(rawText).dataSection)
                ELSE <<>>)
  /\ IF LocateDataSection(rawText).found
     THEN ppc' = "each" /\ UNCHANGED parsed
     ELSE ppc' = "done" /\ parsed' = <<>>
  /\ idx' = 1
  /\ earthquakes' = <<>>
  /\ UNCHANGED <<rawText, parser, fetchVars, pageVars, relayVars>>

\* the callback of parseEarthquakeLines putting its record in front
ServerCallbackUnshift ==
  /\ parser = "server"
  /\ ppc = "each"
  /\ idx <= Len(lines)
  /\ earthquakes' = ServerLine(lines[idx]) \o earthquakes
  /\ idx' = idx + 1
  /\ UNCHANGED <<rawText, parser, ppc, lines, parsed, fetchVars, pageVars, relayVars>>

\* one call of the forEach callback of parseEarthquakeLines
ServerCallback ==
  /\ parser = "server"
  /\ ppc = "each"
  /\ idx <= Len(lines)
  /\ earthquakes' = earthquakes \o ServerLine(lines[idx])
  /\ idx' = idx + 1
  /\ UNCHANGED <<rawText, parser, ppc, lines, parsed, fetchVars, pageVars, relayVars>>

\* return parsedData
ServerReturn ==
  /\ parser = "server"
  /\ ppc = "each"
  /\ idx > Len(lines)
  /\ parsed' = earthquakes
  /\ ppc' = "done"
  /\ UNCHANGED <<rawText, parser, lines, idx, earthquakes, fetchVars, pageVars, relayVars>>

NextParse ==
  \/ ClientLocate
  \/ ClientCallback
  \/ ClientReturn
  \/ ServerLocate
  \/ ServerCallback
  \/ ServerReturn

SpecParse == InitParse /\ [][NextParse]_vars

\* the stepwise run returns what the function computes
ParseAgrees ==
  ppc = "done" =>
    parsed = (IF parser = "client" THEN parseEarthquakeData(rawText)
              ELSE actionParseEarthquakeData(rawText))

----------------------------------------------------------------------------
(* Claims about the parsers *)

\* the tokens of a line
Tokens(line) == SplitWhitespace(Trim(line))

\* the forEach callback is about to run on lines[idx]
AtLine == ppc = "each" /\ idx <= Len(lines)

\* the first token holds a YYYY.MM.DD date and the second an HH:MM:SS time
FirstTwoTokensMatch(line) ==
  /\ Len(Tokens(line)) >= 2
  /\ datePattern(Tokens(line)[1])
  /\ \E i \in 1..Len(Tokens(line)[2]) : TimeAt(Tokens(line)[2], i)

\* C7: a line whose first two tokens do not match the date pattern followed
\* by the time pattern is never turned into a record, by either parser.
C7_NoRecordWithoutDateTime ==
  [][(AtLine /\ ~FirstTwoTokensMatch(lines[idx])) => earthquakes' = earthquakes]_vars

\* the location the specification gives a line: the tokens from index 8 up to
\* the trailing quality token, without the revision timestamp before a REVIZE
ClaimedLocation(line) ==
  LET parts == Tokens(line)
      drop  == IF /\ StartsWith(parts[Len(parts)], REVIZE)
                  /\ StartsWith(parts[Len(parts) - 1], <<"(">>)
               THEN 2 ELSE 1
  IN  Join(SubSeq(parts, 9, Len(parts) - drop), Space)

\* C8: the location of every record is the tokens from index 8 up to but
\* excluding the trailing quality token (and the parenthesized timestamp
\* before a REVIZE code), joined by single spaces, in both parsers.
C8_LocationExcludesQuality ==
  [][(AtLine /\ Len(earthquakes') = Len(earthquakes) + 1)
       => earthquakes'[Len(earthquakes')].location = ClaimedLocation(lines[idx])]_vars

\* C9: two records of a parser have the same id if and only if they have the
\* same date, time, latitude and longitude.
C9_IdIffKeyFields ==
  \A i, j \in 1..Len(earthquakes) :
    (earthquakes[i].id = earthquakes[j].id)
      <=> /\ earthquakes[i].date = earthquakes[j].date
          /\ earthquakes[i].time = earthquakes[j].time
          /\ earthquakes[i].latitude = earthquakes[j].latitude
          /\ earthquakes[i].longitude = earthquakes[j].longitude

\* the whole token is a decimal number: a sign, digits, at most one point
IsDecimal(token) ==
  LET body == IF Len(token) > 0 /\ token[1] \in {"+", "-"} THEN Tail(token) ELSE token
  IN  /\ \A i \in 1..Len(body) : body[i] \in Digit \cup {"."}
      /\ Cardinality({i \in 1..Len(body) : body[i] = "."}) <= 1
      /\ \E i \in 1..Len(body) : body[i] \in Digit

\* the latitude, longitude or depth token, or a magnitude token other than
\* the sentinel, is not a decimal number
HasMalformedNumber(line) ==
  /\ Len(Tokens(line)) >= 8
  /\ \/ \E k \in {3, 4, 5} : ~IsDecimal(Tokens(line)[k])
     \/ \E k \in {6, 7, 8} : Tokens(line)[k] # Sentinel /\ ~IsDecimal(Tokens(line)[k])

\* C10: a candidate line with a malformed numeric token produces no record.
C10_MalformedNumberSkipsLine ==
  [][(AtLine /\ HasMalformedNumber(lines[idx])) => earthquakes' = earthquakes]_vars

----------------------------------------------------------------------------
(* The acquisition chain.  A call is a record: the function it is in, the  *)
(* await it is suspended at, how its promise settled, and the requests it  *)
(* issued.  An event is what an await delivers.                            *)

DirectUrl == "http://www.koeri.boun.edu.tr/scripts/lst9.asp"

ProxyUrl == "/api/proxy"

PublicProxyUrl ==
  "https://corsproxy.io/?http%3A%2F%2Fwww.koeri.boun.edu.tr%2Fscripts%2Flst9.asp"

\* the bundled dataset of app/data/fallback-data: its first record is dated
\* with the literal the page looks for
fallbackEarthquakeData ==
  << [date            |-> FallbackDate,
      time            |-> Time1,
      latitude        |-> parseFloat(Lat1),
      longitude       |-> parseFloat(Lon1),
      depth           |-> parseFloat(Depth1),
      magnitudeMD     |-> null,
      magnitudeML     |-> parseFloat(Mag1),
      magnitudeMw     |-> null,
      location        |-> Place1,
      solutionQuality |-> Quality1,
      id              |-> MakeId(FallbackDate, Time1, parseFloat(Lat1), parseFloat(Lon1))] >>

\* await fetch(url, ...): the request is issued and the function suspends
Request(c, fn, url) ==
  [c EXCEPT !.fn = fn, !.at = "fetch", !.status = "pending",
            !.issued = Append(@, url), !.outstanding = @ \cup {url}]

\* return value: the promise of the call resolves
Resolve(c, value, from) ==
  [c EXCEPT !.at = "none", !.status = "resolved", !.value = value, !.from = from]

\* an exception leaves the function: the promise of the call rejects
Reject(c) == [c EXCEPT !.at = "none", !.status = "rejected"]

\* const text = await response.text()
AwaitText(c) == [c EXCEPT !.at = "text"]

\* fetchWithPublicProxy() up to its first await
fetchWithPublicProxy(c) == Request(c, "fetchWithPublicProxy", PublicProxyUrl)

\* fetchWithPublicProxy without the test for an empty list
fetchWithPublicProxyParsedUnchecked(c, records) == Resolve(c, records, PublicProxyUrl)

\* fetchWithPublicProxy after the text is parsed: if (earthquakes.length === 0)
fetchWithPublicProxyParsed(c, records) ==
  IF Len(records) = 0
  THEN Resolve(c, fallbackEarthquakeData, "fallback")
  ELSE Resolve(c, records, PublicProxyUrl)

\* fetchWithPublicProxy whose catch block throws again instead of returning
\* the fallback
fetchWithPublicProxyResumeRethrows(c, ev) ==
  IF ev.kind = "reject"
  THEN Reject(c)
  ELSE IF ev.kind = "response"
  THEN IF ~ev.ok
       THEN Resolve(c, fallbackEarthquakeData, "fallback")
       ELSE AwaitText(c)
  ELSE fetchWithPublicProxyParsed(c, parseEarthquakeData(ev.text))

\* fetchWithPublicProxy resumed by what its await delivers
fetchWithPublicProxyResume(c, ev) ==
  IF ev.kind = "reject"
  THEN Resolve(c, fallbackEarthquakeData, "fallback")
  ELSE IF ev.kind = "response"
  THEN IF ~ev.ok
       THEN Resolve(c, fallbackEarthquakeData, "fallback")
       ELSE AwaitText(c)
  ELSE fetchWithPublicProxyParsed(c, parseEarthquakeData(ev.text))

\* fetchWithProxy() up to its first await
fetchWithProxy(c) == Request(c, "fetchWithProxy", ProxyUrl)

\* fetchWithProxy after the text is parsed: if (earthquakes.length === 0)
fetchWithProxyParsed(c, records) ==
  IF Len(records) = 0
  THEN fetchWithPublicProxy(c)
  ELSE Resolve(c, records, ProxyUrl)

\* fetchWithProxy that tries itself again after a failure
fetchWithProxyResumeRetries(c, ev) ==
  IF ev.kind = "reject"
  THEN fetchWithProxy(c)
  ELSE IF ev.kind = "response"
  THEN IF ~ev.ok
       THEN fetchWithProxy(c)
       ELSE AwaitText(c)
  ELSE fetchWithProxyParsed(c, parseEarthquakeData(ev.text))

\* fetchWithProxy resumed by what its await delivers
fetchWithProxyResume(c, ev) ==
  IF ev.kind = "reject"
  THEN fetchWithPublicProxy(c)
  ELSE IF ev.kind = "response"
  THEN IF ~ev.ok
       THEN fetchWithPublicProxy(c)
       ELSE AwaitText(c)
  ELSE fetchWithProxyParsed(c, parseEarthquakeData(ev.text))

\* the client service's fetchEarthquakeData() up to its first await
fetchEarthquakeData(c) == Request(c, "fetchEarthquakeData", DirectUrl)

\* fetchEarthquakeData without the test for an empty list
fetchEarthquakeDataParsedUnchecked(c, records) == Resolve(c, records, DirectUrl)

\* the client service's fetchEarthquakeData after the text is parsed: if (earthquakes.length === 0)
fetchEarthquakeDataParsed(c, records) ==
  IF Len(records) = 0
  THEN fetchWithProxy(c)
  ELSE Resolve(c, records, DirectUrl)

\* fetchEarthquakeData that gives up on a non-success status
fetchEarthquakeDataResumeGivesUp(c, ev) ==
  IF ev.kind = "reject"
  THEN fetchWithProxy(c)
  ELSE IF ev.kind = "response"
  THEN IF ~ev.ok
       THEN Resolve(c, fallbackEarthquakeData, "fallback")
       ELSE AwaitText(c)
  ELSE fetchEarthquakeDataParsed(c, parseEarthquakeData(ev.text))

\* the client service's fetchEarthquakeData resumed by what its await delivers
fetchEarthquakeDataResume(c, ev) ==
  IF ev.kind = "reject"
  THEN fetchWithProxy(c)
  ELSE IF ev.kind = "response"
  THEN IF ~ev.ok
       THEN fetchWithProxy(c)
       ELSE AwaitText(c)
  ELSE fetchEarthquakeDataParsed(c, parseEarthquakeData(ev.text))

\* useFallbackData()
useFallbackData(c) == Resolve(c, fallbackEarthquakeData, "fallback")

\* fetchDirectFromKoeri() up to its first await
fetchDirectFromKoeri(c) == Request(c, "fetchDirectFromKoeri", DirectUrl)

\* fetchDirectFromKoeri after the text is parsed: if (earthquakes.length === 0)
fetchDirectFromKoeriParsed(c, records) ==
  IF Len(records) = 0
  THEN useFallbackData(c)
  ELSE Resolve(c, records, DirectUrl)

\* fetchDirectFromKoeri resumed by what its await delivers
fetchDirectFromKoeriResume(c, ev) ==
  IF ev.kind = "reject"
  THEN useFallbackData(c)
  ELSE IF ev.kind = "response"
  THEN IF ~ev.ok
       THEN useFallbackData(c)
       ELSE AwaitText(c)
  ELSE fetchDirectFromKoeriParsed(c, actionParseEarthquakeData(ev.text))

\* the server action's fetchEarthquakeData(): return fetchDirectFromKoeri()
actionFetchEarthquakeData(c) == fetchDirectFromKoeri(c)

\* the suspended function of a call is resumed
Resume(c, ev) ==
  IF c.fn = "fetchEarthquakeData" THEN fetchEarthquakeDataResume(c, ev)
  ELSE IF c.fn = "fetchWithProxy" THEN fetchWithProxyResume(c, ev)
  ELSE IF c.fn = "fetchWithPublicProxy" THEN fetchWithPublicProxyResume(c, ev)
  ELSE fetchDirectFromKoeriResume(c, ev)

\* the request a pending call waits for
CurrentUrl(c) == c.issued[Len(c.issued)]

\* an event reaches a pending call: unless it is a response with a success
\* status, whose body is still to be read, the request is over; then the
\* suspended function runs on
Deliver(c, ev) ==
  Resume(IF ev.kind = "response" /\ ev.ok
         THEN c
         ELSE [c EXCEPT !.outstanding = @ \ {CurrentUrl(c)}], ev)

\* the events an await can deliver
RejectEvent == [kind |-> "reject", ok |-> FALSE, text |-> <<>>]

ResponseEvent(ok) == [kind |-> "response", ok |-> ok, text |-> <<>>]

TextEvent(text) == [kind |-> "text", ok |-> TRUE, text |-> text]

\* the response bodies of the model
Bodies ==
  { <<>>,
    Join(<<Place2, Place3>>, Space),
    Join(<<Date1, Time1, Lat1, Lon1, Depth1, Sentinel, Mag1, Sentinel, Quality1>>, Space),
    Join(<<Date1, Time1, Lat1, Lon1, Depth1, Sentinel, Mag1, Sentinel, Place2, Place3,
           Quality1>>, Space),
    Join(<<FallbackDate, Time1, Lat2, Lon1, Depth1, Sentinel, Mag1, Sentinel, Place3,
           Quality1>>, Space) }

\* what a stage received, for the history of a call
Received(c, ev) ==
  [url |-> CurrentUrl(c), at |-> c.at, kind |-> ev.kind, ok |-> ev.ok, text |-> ev.text]

----------------------------------------------------------------------------
(* One call of the client service's fetchEarthquakeData and one call of    *)
(* the server action's                                                     *)

InitFetch ==
  /\ FetchIdle
  /\ ParseIdle
  /\ PageIdle
  /\ RelayIdle

ClientStart ==
  /\ call.status = "idle"
  /\ call' = fetchEarthquakeData(call)
  /\ UNCHANGED <<scall, responses, sresponses, parseVars, pageVars, relayVars>>

ClientFetchRejects ==
  /\ call.status = "pending"
  /\ call.at = "fetch"
  /\ call' = Deliver(call, RejectEvent)
  /\ responses' = Append(responses, Received(call, RejectEvent))
  /\ UNCHANGED <<scall, sresponses, parseVars, pageVars, relayVars>>

ClientFetchResponds ==
  /\ call.status = "pending"
  /\ call.at = "fetch"
  /\ \E ok \in BOOLEAN :
       /\ call' = Deliver(call, ResponseEvent(ok))
       /\ responses' = IF ok THEN responses
                       ELSE Append(responses, Received(call, ResponseEvent(ok)))
  /\ UNCHANGED <<scall, sresponses, parseVars, pageVars, relayVars>>

ClientTextRejects ==
  /\ call.status = "pending"
  /\ call.at = "text"
  /\ call' = Deliver(call, RejectEvent)
  /\ responses' = Append(responses, Received(call, RejectEvent))
  /\ UNCHANGED <<scall, sresponses, parseVars, pageVars, relayVars>>

ClientTextArrives ==
  /\ call.status = "pending"
  /\ call.at = "text"
  /\ \E text \in Bodies :
       /\ call' = Deliver(call, TextEvent(text))
       /\ responses' = Append(responses, Received(call, TextEvent(text)))
  /\ UNCHANGED <<scall, sresponses, parseVars, pageVars, relayVars>>

ServerStart ==
  /\ scall.status = "idle"
  /\ scall' = actionFetchEarthquakeData(scall)
  /\ UNCHANGED <<call, responses, sresponses, parseVars, pageVars, relayVars>>

ServerFetchRejects ==
  /\ scall.status = "pending"
  /\ scall.at = "fetch"
  /\ scall' = Deliver(scall, RejectEvent)
  /\ sresponses' = Append(sresponses, Received(scall, RejectEvent))
  /\ UNCHANGED <<call, responses, parseVars, pageVars, relayVars>>

ServerFetchResponds ==
  /\ scall.status = "pending"
  /\ scall.at = "fetch"
  /\ \E ok \in BOOLEAN :
       /\ scall' = Deliver(scall, ResponseEvent(ok))
       /\ sresponses' = IF ok THEN sresponses
                        ELSE Append(sresponses, Received(scall, ResponseEvent(ok)))
  /\ UNCHANGED <<call, responses, parseVars, pageVars, relayVars>>

ServerTextRejects ==
  /\ scall.status = "pending"
  /\ scall.at = "text"
  /\ scall' = Deliver(scall, RejectEvent)
  /\ sresponses' = Append(sresponses, Received(scall, RejectEvent))
  /\ UNCHANGED <<call, responses, parseVars, pageVars, relayVars>>

ServerTextArrives ==
  /\ scall.status = "pending"
  /\ scall.at = "text"
  /\ \E text \in Bodies :
       /\ scall' = Deliver(scall, TextEvent(text))
       /\ sresponses' = Append(sresponses, Received(scall, TextEvent(text)))
  /\ UNCHANGED <<call, responses, parseVars, pageVars, relayVars>>

NextFetch ==
  \/ ClientStart
  \/ ClientFetchRejects
  \/ ClientFetchResponds
  \/ ClientTextRejects
  \/ ClientTextArrives
  \/ ServerStart
  \/ ServerFetchRejects
  \/ ServerFetchResponds
  \/ ServerTextRejects
  \/ ServerTextArrives

SpecFetch == InitFetch /\ [][NextFetch]_vars

----------------------------------------------------------------------------
(* The page: Home's state, its two effects and the refresh button          *)

AUTO_REFRESH_INTERVAL == 60

\* the number of calls of getEarthquakeData that are followed
MaxCycles == 2

\* what the feed answers while the page is open
PageBodies ==
  { <<>>,
    Join(<<Date1, Time1, Lat1, Lon1, Depth1, Sentinel, Mag1, Sentinel, Place2, Place3,
           Quality1>>, Space),
    Join(<<FallbackDate, Time1, Lat2, Lon1, Depth1, Sentinel, Mag1, Sentinel, Place3,
           Quality1>>, Space) }

\* data.length > 0 && data[0].date.startsWith("2023.05.01")
isFallbackData(data) == Len(data) > 0 /\ StartsWith(data[1].date, FallbackDate)

\* getEarthquakeData up to its await
getEarthquakeData ==
  /\ Len(cycles) < MaxCycles
  /\ loading' = TRUE
  /\ error' = FALSE
  /\ countdown' = AUTO_REFRESH_INTERVAL
  /\ cycles' = Append(cycles, fetchEarthquakeData(NoCall))

\* getEarthquakeData after its await, c being the call it awaited; the Date
\* of lastUpdated is the number of completions so far
getEarthquakeDataResume(c) ==
  IF c.status = "resolved"
  THEN /\ dataSource' = (IF isFallbackData(c.value) THEN "fallback" ELSE "live")
       /\ pageEarthquakes' = c.value
       /\ lastUpdated' = lastUpdated + 1
       /\ loading' = FALSE
       /\ UNCHANGED error
  ELSE IF c.status = "rejected"
  THEN /\ error' = TRUE
       /\ loading' = FALSE
       /\ UNCHANGED <<dataSource, pageEarthquakes, lastUpdated>>
  ELSE UNCHANGED <<dataSource, pageEarthquakes, lastUpdated, loading, error>>

InitPage ==
  /\ PageIdle
  /\ FetchIdle
  /\ ParseIdle
  /\ RelayIdle

\* the first render: both effects run
Mount ==
  /\ ~mounted
  /\ mounted' = TRUE
  /\ getEarthquakeData
  /\ UNCHANGED <<dataSource, pageEarthquakes, lastUpdated, fetchVars, parseVars, relayVars>>

\* the refresh button, disabled while loading
Click ==
  /\ mounted
  /\ ~loading
  /\ getEarthquakeData
  /\ UNCHANGED <<mounted, dataSource, pageEarthquakes, lastUpdated, fetchVars, parseVars, relayVars>>

\* the one-second interval
Tick ==
  /\ mounted
  /\ IF countdown <= 1
     THEN /\ getEarthquakeData
          /\ UNCHANGED <<mounted, dataSource, pageEarthquakes, lastUpdated>>
     ELSE /\ countdown' = countdown - 1
          /\ UNCHANGED <<cycles, mounted, dataSource, pageEarthquakes, lastUpdated,
                         loading, error>>
  /\ UNCHANGED <<fetchVars, parseVars, relayVars>>

\* cycle i receives what its await was waiting for
CycleStep(i, ev) ==
  /\ cycles' = [cycles EXCEPT ![i] = Deliver(cycles[i], ev)]
  /\ getEarthquakeDataResume(cycles'[i])
  /\ UNCHANGED <<mounted, countdown, fetchVars, parseVars, relayVars>>

CycleFetchRejects ==
  \E i \in 1..Len(cycles) :
    /\ cycles[i].status = "pending"
    /\ cycles[i].at = "fetch"
    /\ CycleStep(i, RejectEvent)

CycleFetchResponds ==
  \E i \in 1..Len(cycles) :
    /\ cycles[i].status = "pending"
    /\ cycles[i].at = "fetch"
    /\ \E ok \in BOOLEAN : CycleStep(i, ResponseEvent(ok))

CycleTextRejects ==
  \E i \in 1..Len(cycles) :
    /\ cycles[i].status = "pending"
    /\ cycles[i].at = "text"
    /\ CycleStep(i, RejectEvent)

CycleTextArrives ==
  \E i \in 1..Len(cycles) :
    /\ cycles[i].status = "pending"
    /\ cycles[i].at = "text"
    /\ \E text \in PageBodies : CycleStep(i, TextEvent(text))

NextPage ==
  \/ Mount
  \/ Click
  \/ Tick
  \/ CycleFetchRejects
  \/ CycleFetchResponds
  \/ CycleTextRejects
  \/ CycleTextArrives

SpecPage == InitPage /\ [][NextPage]_vars

----------------------------------------------------------------------------
(* The relay endpoint: GET of api/proxy *)

\* the statuses upstream answers with
UpstreamStatuses == {200, 204, 301, 404, 500, 503}

\* Response.ok
ResponseOk(status) == 200 <= status /\ status <= 299

\* the bodies upstream answers with
RelayBodies ==
  Bodies \cup { Join(f, <<"\n">>) : f \in UNION { [1..n -> SampleLines] : n \in 0..MaxLines } }

\* text.includes(".2025.") || text.includes(".2024.") || text.includes(".2023.")
\*   || text.includes("-.-")
hasEarthquakeData(text) ==
  \/ Includes(text, <<".", "2", "0", "2", "5", ".">>)
  \/ Includes(text, <<".", "2", "0", "2", "4", ".">>)
  \/ Includes(text, <<".", "2", "0", "2", "3", ".">>)
  \/ Includes(text, Sentinel)

\* JSON.stringify({ error: 'Failed to fetch earthquake data' })
ErrorBody ==
  <<"{", "\"", "e", "r", "r", "o", "r", "\"", ":", "\"", 
    "F", "a", "i", "l", "e", "d", " ", "t", "o", " ",
    "f", "e", "t", "c", "h", " ", "e", "a", "r", "t", "h", "q", "u", "a", "k", "e", " ", "d", "a", "t", "a", "\"", "}">>

\* the response of the catch block
ErrorReply == [status |-> 500, contentType |-> "application/json", body |-> ErrorBody]

\* a response that strips the body it relays
TextReplyTrimmed(text) ==
  [status |-> 200, contentType |-> "text/html; charset=utf-8", body |-> Trim(text)]

\* the response of the try block
TextReply(text) ==
  [status |-> 200, contentType |-> "text/html; charset=utf-8", body |-> text]

InitRelay ==
  /\ RelayIdle
  /\ ParseIdle
  /\ FetchIdle
  /\ PageIdle

\* GET up to its await fetch
RelayGet ==
  /\ relay.at = "idle"
  /\ relay' = [relay EXCEPT !.at = "fetch"]
  /\ UNCHANGED <<reply, parseVars, fetchVars, pageVars>>

\* the upstream fetch throws
RelayFetchRejects ==
  /\ relay.at = "fetch"
  /\ relay' = [relay EXCEPT !.at = "done", !.threw = "fetch"]
  /\ reply' = ErrorReply
  /\ UNCHANGED <<parseVars, fetchVars, pageVars>>

\* the upstream fetch resolves with a status; a status that is not ok is
\* thrown and caught
RelayFetchResponds ==
  /\ relay.at = "fetch"
  /\ \E status \in UpstreamStatuses :
       IF ~ResponseOk(status)
       THEN /\ relay' = [relay EXCEPT !.at = "done", !.status = status, !.threw = "status"]
            /\ reply' = ErrorReply
       ELSE /\ relay' = [relay EXCEPT !.at = "text", !.status = status]
            /\ UNCHANGED reply
  /\ UNCHANGED <<parseVars, fetchVars, pageVars>>

\* await response.text() throws
RelayTextRejects ==
  /\ relay.at = "text"
  /\ relay' = [relay EXCEPT !.at = "done", !.threw = "text"]
  /\ reply' = ErrorReply
  /\ UNCHANGED <<parseVars, fetchVars, pageVars>>

\* await response.text() resolves; the markers are looked for and logged
RelayTextArrives ==
  /\ relay.at = "text"
  /\ \E text \in RelayBodies :
       /\ relay' = [relay EXCEPT !.at = "done", !.text = text,
                                 !.markers = hasEarthquakeData(text)]
       /\ reply' = TextReply(text)
  /\ UNCHANGED <<parseVars, fetchVars, pageVars>>

NextRelay ==
  \/ RelayGet
  \/ RelayFetchRejects
  \/ RelayFetchResponds
  \/ RelayTextRejects
  \/ RelayTextArrives

SpecRelay == InitRelay /\ [][NextRelay]_vars

----------------------------------------------------------------------------
(* Claims about the acquisition chain *)

\* the order of the client service's stages
Chain == <<DirectUrl, ProxyUrl, PublicProxyUrl>>

\* what a stage received is a failure: the request threw, the status was not
\* a success, the body could not be read, or no record was parsed from it
StageFailed(r, records) ==
  \/ r.kind = "reject"
  \/ r.kind = "response" /\ ~r.ok
  \/ r.kind = "text" /\ Len(records) = 0

\* what a stage received is usable: a success status and at least one record
StageUsable(r, records) == r.kind = "text" /\ Len(records) > 0

ClientFailed(i) == StageFailed(responses[i], parseEarthquakeData(responses[i].text))

ClientUsable(i) == StageUsable(responses[i], parseEarthquakeData(responses[i].text))

ServerFailed(i) == StageFailed(sresponses[i], actionParseEarthquakeData(sresponses[i].text))

\* a list of Earthquake records
IsRecordList(v) ==
  \A i \in 1..Len(v) :
    DOMAIN v[i] = {"date", "time", "latitude", "longitude", "depth", "magnitudeMD",
                    "magnitudeML", "magnitudeMw", "location", "solutionQuality", "id"}

\* C1: whatever the three transport attempts deliver, the call of the client
\* fetchEarthquakeData never rejects and resolves to a list of records: it is
\* pending only while a stage is still to answer, and once all three stages
\* have failed it has resolved to the static fallback dataset.
C1_NeverRejects ==
  /\ call.status # "rejected"
  /\ call.status = "pending" => Len(responses) < 3
  /\ call.status = "resolved" => IsRecordList(call.value) /\ Len(call.value) > 0
  /\ (Len(responses) = 3 /\ \A i \in 1..3 : ClientFailed(i))
       => /\ call.status = "resolved"
          /\ call.value = fallbackEarthquakeData
          /\ call.from = "fallback"

\* the request threw, a status was not a success, a body parsed to nothing,
\* and the call resolved to the fallback
C1_Witness ==
  /\ call.status = "resolved"
  /\ call.from = "fallback"
  /\ Len(responses) = 3
  /\ responses[1].kind = "reject"
  /\ responses[2].kind = "response"
  /\ responses[3].kind = "text"

\* C2: a stage ends the call with its own records only if its request had a
\* success status and at least one record was parsed from the body; after
\* every other outcome the next stage is attempted (after the third stage,
\* the fallback is returned).
C2_UsableOrFallThrough ==
  /\ (call.status = "resolved" /\ call.from # "fallback")
       => /\ Len(responses) > 0
          /\ responses[Len(responses)].url = call.from
          /\ ClientUsable(Len(responses))
          /\ call.value = parseEarthquakeData(responses[Len(responses)].text)
  /\ \A i \in 1..Len(responses) :
       ClientFailed(i) =>
         IF i < 3
         THEN Len(call.issued) > i /\ call.issued[i + 1] = Chain[i + 1]
         ELSE call.status = "resolved" /\ call.from = "fallback"

\* the direct fetch got a success status and a body without a record, and
\* the request to /api/proxy was issued
C2_Witness ==
  /\ Len(responses) >= 1
  /\ responses[1].url = DirectUrl
  /\ responses[1].kind = "text"
  /\ Len(parseEarthquakeData(responses[1].text)) = 0
  /\ Len(call.issued) >= 2
  /\ call.issued[2] = ProxyUrl

\* C3: the requests of one call are issued in the order direct, /api/proxy,
\* public proxy, each at most once; a later one only after the earlier one
\* completed and failed; never two outstanding; none after usable data.
C3_SequentialStages ==
  /\ Len(call.issued) <= 3
  /\ \A i \in 1..Len(call.issued) : call.issued[i] = Chain[i]
  /\ Cardinality(call.outstanding) <= 1
  /\ call.outstanding =
       (IF call.status = "pending" THEN {call.issued[Len(call.issued)]} ELSE {})
  /\ \A i \in 1..(Len(call.issued) - 1) :
       /\ i <= Len(responses)
       /\ responses[i].url = call.issued[i]
       /\ ClientFailed(i)
  /\ \A i \in 1..Len(responses) :
       ClientUsable(i) => Len(call.issued) = i /\ call.status = "resolved"

\* all three requests were issued and the third produced the records
C3_Witness ==
  /\ call.status = "resolved"
  /\ call.issued = Chain
  /\ call.from = PublicProxyUrl

\* C4 as claimed: any fetchEarthquakeData, of the client service or of the
\* server action, returns the static fallback dataset only after the direct
\* fetch, the local relay fetch and the third-party relay fetch were each
\* attempted and each failed.
C4_FallbackAfterAllThree ==
  /\ (call.status = "resolved" /\ call.from = "fallback")
       => /\ call.issued = Chain
          /\ Len(responses) = 3
          /\ \A i \in 1..3 : responses[i].url = Chain[i] /\ ClientFailed(i)
  /\ (scall.status = "resolved" /\ scall.from = "fallback")
       => /\ scall.issued = Chain
          /\ Len(sresponses) = 3
          /\ \A i \in 1..3 : sresponses[i].url = Chain[i] /\ ServerFailed(i)

\* C4: the client service's fetchEarthquakeData returns the static fallback
\* dataset only after its three stages were each attempted and each failed;
\* the server action's returns it only after its one stage, the direct
\* fetch, was attempted and failed.
C4_FallbackAfterEveryStage ==
  /\ (call.status = "resolved" /\ call.from = "fallback")
       => /\ call.issued = Chain
          /\ Len(responses) = 3
          /\ \A i \in 1..3 : responses[i].url = Chain[i] /\ ClientFailed(i)
  /\ (scall.status = "resolved" /\ scall.from = "fallback")
       => /\ scall.issued = <<DirectUrl>>
          /\ Len(sresponses) = 1
          /\ sresponses[1].url = DirectUrl
          /\ ServerFailed(1)

\* both calls returned the fallback
C4_Witness ==
  /\ call.status = "resolved"
  /\ call.from = "fallback"
  /\ scall.status = "resolved"
  /\ scall.from = "fallback"

----------------------------------------------------------------------------
(* Claims about the page *)

InFlight == {i \in 1..Len(cycles) : cycles[i].status = "pending"}

\* C5: cycles are serialized: in every reachable state of the page at most
\* one call of getEarthquakeData has been started and not yet completed.
C5_AtMostOneCycleInFlight == Cardinality(InFlight) <= 1

\* C6: when a cycle completes, dataSource becomes "fallback" if and only if
\* the list fetchEarthquakeData returned in that cycle was the static
\* fallback dataset.
C6_FallbackFlagIffFallback ==
  [][\A i \in 1..Len(cycles) :
       (cycles[i].status = "pending" /\ cycles'[i].status = "resolved")
         => ((dataSource' = "fallback") <=> (cycles'[i].from = "fallback"))]_vars

----------------------------------------------------------------------------
(* Further claims about the parsers *)

\* the token is a YYYY.MM.DD date, an HH:MM:SS time
IsDateToken(token) == Len(token) = 10 /\ DateAt(token, 1)

IsTimeToken(token) == Len(token) = 8 /\ TimeAt(token, 1)

\* the number of trailing tokens that are not location: the quality code, and
\* the parenthesized timestamp before a REVIZE code
TrailingTokens(parts) ==
  IF /\ StartsWith(parts[Len(parts)], REVIZE)
     /\ StartsWith(parts[Len(parts) - 1], <<"(">>)
  THEN 2 ELSE 1

\* a record line of the report: date, time, three decimal numbers, three
\* magnitudes each a decimal number or the sentinel, at least one location
\* token, the quality code
WellFormedLine(line) ==
  /\ Len(Tokens(line)) >= 10
  /\ IsDateToken(Tokens(line)[1])
  /\ IsTimeToken(Tokens(line)[2])
  /\ \A k \in {3, 4, 5} : IsDecimal(Tokens(line)[k])
  /\ \A k \in {6, 7, 8} : Tokens(line)[k] = Sentinel \/ IsDecimal(Tokens(line)[k])
  /\ Len(Tokens(line)) - TrailingTokens(Tokens(line)) >= 9

IsOneLine(text) == \A i \in 1..Len(text) : text[i] # "\n"

MagnitudeFields(r) == <<r.magnitudeMD, r.magnitudeML, r.magnitudeMw>>

\* C11: a text that is one well-formed record line, with the sentinel at any
\* subset of the three magnitude positions, is parsed into one record whose
\* magnitude fields are null exactly at the sentinel positions and numbers
\* elsewhere; no subset makes the line disappear.
C11_SentinelSubsets ==
  (ppc = "done" /\ IsOneLine(rawText) /\ WellFormedLine(rawText))
    => /\ Len(parsed) = 1
       /\ \A k \in 1..3 :
            IF Tokens(rawText)[5 + k] = Sentinel
            THEN MagnitudeFields(parsed[1])[k] = null
            ELSE MagnitudeFields(parsed[1])[k].kind = "finite"

\* C12: a line that splits into fewer than 10 whitespace-delimited tokens is
\* never turned into a record, by either parser.
C12_FewTokensNoRecord ==
  [][(AtLine /\ Len(Tokens(lines[idx])) < 10) => earthquakes' = earthquakes]_vars

\* the callback has run on a candidate line of nine tokens
C12_Witness ==
  /\ ppc = "each"
  /\ idx > 1
  /\ Len(Tokens(lines[idx - 1])) = 9
  /\ earthquakes = <<>>

\* the records a parser makes of one line
LineRecords(line) == IF parser = "client" THEN ClientLine(line) ELSE ServerLine(line)

\* f assigns to each record the line that produced it, in increasing order
ProducedInOrder(f, records, ls) ==
  /\ \A i \in 1..Len(records) : <<records[i]>> = LineRecords(ls[f[i]])
  /\ \A i, j \in 1..Len(records) : i < j => f[i] < f[j]

\* C13: parsing a batch of candidate lines always comes to its return with a
\* list of at most as many records as lines, at most one per line and in the
\* order of the lines, however many lines are malformed; a line that yields
\* nothing leaves the records of the other lines as they are.
C13_PartialSuccess ==
  /\ [](ppc \in {"each", "done"} =>
          /\ Len(earthquakes) <= Len(lines)
          /\ Len(earthquakes) <= idx - 1
          /\ \E f \in [1..Len(earthquakes) -> 1..Len(lines)] :
               ProducedInOrder(f, earthquakes, lines)
          /\ ppc = "done" => parsed = earthquakes)
  /\ [][AtLine => /\ Len(earthquakes') <= Len(earthquakes) + 1
                  /\ SubSeq(earthquakes', 1, Len(earthquakes)) = earthquakes
                  /\ idx' = idx + 1]_vars
  /\ [][(ppc = "each" /\ idx > Len(lines)) => ppc' = "done"]_vars

\* a batch of two lines, the first malformed, returned one record
C13_Witness ==
  /\ ppc = "done"
  /\ Len(lines) = 2
  /\ Len(LineRecords(lines[1])) = 0
  /\ Len(parsed) = 1

\* the line is not blank, holds a YYYY.MM.DD date and holds the literal -.-
Qualifies(line) ==
  /\ \E i \in 1..Len(line) : line[i] \notin WhiteSpace
  /\ \E i \in 1..Len(line) : DateAt(line, i)
  /\ \E i \in 1..Len(line) : HasAt(line, Sentinel, i)

\* the positions, among the lines of the text, of the lines that qualify
QualifyingAt(text) == {i \in 1..Len(SplitNewline(text)) : Qualifies(SplitNewline(text)[i])}

\* candidates are the qualifying lines of the text in their order, each
\* changed by the function given (nothing for the client, trimmed by
\* parseEarthquakeLines for the server action)
IsQualifyingSequence(candidates, text) ==
  /\ Len(candidates) = Cardinality(QualifyingAt(text))
  /\ \E f \in [1..Len(candidates) -> QualifyingAt(text)] :
       /\ \A i, j \in 1..Len(candidates) : i < j => f[i] < f[j]
       /\ \A i \in 1..Len(candidates) :
            candidates[i] = (IF parser = "client" THEN SplitNewline(text)[f[i]]
                             ELSE Trim(SplitNewline(text)[f[i]]))

\* C14: the candidate sequence of the locator is exactly the non-blank lines
\* of the raw text that hold a YYYY.MM.DD date and the literal -.-, in their
\* order; it is empty when the text holds no date, and it is the one
\* qualifying line when exactly one line qualifies.
C14_LocatorCandidates ==
  ppc # "start" =>
    /\ IsQualifyingSequence(lines, rawText)
    /\ (parser = "server" =>
          /\ LocateDataSection(rawText).found = (QualifyingAt(rawText) # {})
          /\ LocateDataSection(rawText).dataSection
               = Join(SelectSeq(SplitNewline(rawText), Qualifies), <<"\n">>))
    /\ (~datePattern(rawText) => lines = <<>>)
    /\ (Cardinality(QualifyingAt(rawText)) = 1 => Len(lines) = 1)

\* of two lines, only the second qualifies and it is the one candidate
C14_Witness ==
  /\ ppc # "start"
  /\ Len(SplitNewline(rawText)) = 2
  /\ QualifyingAt(rawText) = {2}
  /\ Len(lines) = 1

----------------------------------------------------------------------------
(* Claims about the relay endpoint *)

\* a status from 200 to 299
SuccessStatus(status) == status \in 200..299

\* a JSON object with the one member "error", a string
IsErrorJson(body) ==
  /\ StartsWith(body, <<"{", "\"", "e", "r", "r", "o", "r", "\"", ":", "\"">>)
  /\ Len(body) > 12
  /\ SubSeq(body, Len(body) - 1, Len(body)) = <<"\"", "}">>
  /\ \A i \in 11..(Len(body) - 2) : body[i] \notin {"\"", "\\"}

IsFailureReply(r) ==
  r.status = 500 /\ r.contentType = "application/json" /\ IsErrorJson(r.body)

\* C15 as claimed: the handler always answers; it answers 200 with the
\* upstream body unchanged if and only if the upstream request completed with
\* a success status, and 500 with a JSON error body in every other case.
C15_RelayOkIffUpstreamOk ==
  relay.at = "done" =>
    /\ reply # NoReply
    /\ (reply.status = 200 /\ reply.body = relay.text)
         <=> (relay.threw # "fetch" /\ SuccessStatus(relay.status))
    /\ ~(relay.threw # "fetch" /\ SuccessStatus(relay.status)) => IsFailureReply(reply)

\* C15: the handler always answers; it answers 200 with the upstream body
\* unchanged, whether or not the body holds earthquake markers, if and only
\* if the upstream request completed with a success status and its body was
\* read; when the request throws, the status is not a success or reading the
\* body throws, it answers 500 with a JSON error body.
C15_RelayOkIffBodyRead ==
  /\ relay.at # "done" => reply = NoReply
  /\ relay.at = "done" =>
       /\ reply # NoReply
       /\ (reply.status = 200 /\ reply.body = relay.text)
            <=> (relay.threw = "none" /\ SuccessStatus(relay.status))
       /\ (relay.threw = "none" /\ SuccessStatus(relay.status))
            => reply.contentType = "text/html; charset=utf-8"
       /\ ~(relay.threw = "none" /\ SuccessStatus(relay.status)) => IsFailureReply(reply)

\* a body without markers, with white space at its end, relayed with 200
C15_Witness ==
  /\ relay.at = "done"
  /\ reply.status = 200
  /\ ~relay.markers
  /\ Len(relay.text) > 0
  /\ relay.text[Len(relay.text)] \in WhiteSpace

----------------------------------------------------------------------------
(* Further claims about the acquisition chain *)

\* the value is what was parsed from the body stage i received, and stage i
\* is the stage the call returned from
ParsedFromStage(i) ==
  /\ responses[i].kind = "text"
  /\ responses[i].url = call.from
  /\ call.value = parseEarthquakeData(responses[i].text)

\* C16: what the client fetchEarthquakeData returns is either a non-empty
\* list parsed from the response of exactly one live stage or exactly the
\* static fallback dataset; never an empty list, never records of two stages.
C16_OneStageOrFallback ==
  /\ call.status # "resolved" => call.value = <<>>
  /\ call.status = "resolved" =>
       /\ Len(call.value) > 0
       /\ IF call.from = "fallback"
          THEN call.value = fallbackEarthquakeData
          ELSE /\ call.from \in {DirectUrl, ProxyUrl, PublicProxyUrl}
               /\ \E i \in 1..Len(responses) :
                    /\ ParsedFromStage(i)
                    /\ \A j \in 1..Len(responses) :
                         j # i => Len(parseEarthquakeData(responses[j].text)) = 0

\* the direct fetch delivered a body without a record and the call returned
\* the records of the relay
C16_Witness ==
  /\ call.status = "resolved"
  /\ call.from = ProxyUrl
  /\ Len(responses) = 2
  /\ responses[1].kind = "text"
  /\ Len(responses[1].text) > 0

----------------------------------------------------------------------------
(* Claims about the location of a record *)

\* C17: every record either parser produces has a location of at least one
\* token, a non-empty string, whatever accepted line of 10 or more tokens it
\* comes from, a line ending in a parenthesized timestamp and a REVIZE code
\* included.
C17_LocationNonEmpty ==
  \A i \in 1..Len(earthquakes) : Len(earthquakes[i].location) > 0

----------------------------------------------------------------------------
(* Further claims about the page *)

\* C18: a result of an earlier-started cycle never overwrites the result of
\* a later-started one: once every started cycle has completed, the list on
\* display and dataSource are those of the cycle started last.
C18_LastStartedCycleWins ==
  (Len(cycles) > 0 /\ \A i \in 1..Len(cycles) : cycles[i].status = "resolved")
    => /\ pageEarthquakes = cycles[Len(cycles)].value
       /\ dataSource = (IF isFallbackData(cycles[Len(cycles)].value)
                        THEN "fallback" ELSE "live")

----------------------------------------------------------------------------
(* Claims about the scans of the server action *)

\* the direct scan alone: every qualifying line of the text, handed to
\* parseEarthquakeLines
DirectScanOnly(text) == parseEarthquakeLines(Join(CandidateLines(text), <<"\n">>))

\* the text holds the exact column header or one of the alternate headers
HasHeader(text) ==
  \/ Includes(text, headerText)
  \/ \E h \in 1..Len(alternateHeaders) : Includes(text, alternateHeaders[h])

\* C19: the header-anchored scans of the server action's parseEarthquakeData
\* never contribute a record: its result is the result of the direct scan
\* alone, and it is empty whenever the direct scan finds no candidate line,
\* whichever headers the text holds.
C19_HeaderScansAddNothing ==
  (parser = "server" /\ ppc = "done")
    => /\ parsed = DirectScanOnly(rawText)
       /\ actionParseEarthquakeData(rawText) = DirectScanOnly(rawText)
       /\ (CandidateLines(rawText) = <<>> => parsed = <<>>)

\* a text with a header, then a date, then a sentinel on a later line: the
\* direct scan found no line and a header scan ran
C19_Witness ==
  /\ parser = "server"
  /\ ppc = "done"
  /\ HasHeader(rawText)
  /\ IndexOf(rawText, alternateHeaders[2]) # -1
  /\ datePatternIndex(rawText) > IndexOf(rawText, alternateHeaders[2])
  /\ IndexOf(rawText, Sentinel) > datePatternIndex(rawText)
  /\ CandidateLines(rawText) = <<>>

====
